---------------------------- MODULE Spec2Model ----------------------------
(***************************************************************************)
(* GeminiHydra ADK sidecar: startup, request routing, the refinement       *)
(* loop's QualityGate, the HTTP tool bridge and the event rendering of the *)
(* two run endpoints.                                                      *)
(***************************************************************************)
EXTENDS Integers, Sequences, FiniteSets, TLC

VARIABLES
    \* ---- server.py module globals and the startup coroutine
    startupPc,          \* position of startup(): "start","load","close","done","aborted"
    storeRows,          \* rows of gh_agents, in created_at order
    agents,             \* _agents: ordered dict id -> LlmAgent, as a sequence of handles
    pipelines,          \* _pipelines: dict name -> workflow agent
    runner,             \* _runner: None or the Runner of the coordinator
    session_service,    \* _session_service: None or the InMemorySessionService
    sessions,           \* sessions held by the session service, keyed by <<user, session>>
    reqs,               \* the request handlers in flight
    nreq,               \* number of requests accepted so far
    createCalls,        \* session key -> create_session calls made for it so far
    storeFailure,       \* which call to the store raised during startup, if any
    \* ---- one run of the refinement loop (orchestration.py)
    loopPc,             \* the sub-agent the LoopAgent runs next, or "done"
    ctxState,           \* ctx.session.state: the keys the loop reads and writes
    gate_max_retries,   \* QualityGate._max_retries
    times_looped,       \* full cycles the LoopAgent has completed
    gateRuns,           \* invocations of QualityGate._run_async_impl so far
    gateEvent,          \* the Event the QualityGate yielded last
    \* ---- tools/bridge.py
    bridgePc,           \* "idle", "sent" (request posted), "finished"
    toolCall,           \* the bridge tool called by the agent step, with its arguments
    httpLog,            \* requests posted to /api/internal/tool, in order
    httpStatus,         \* status of the response to the current call
    toolOutcome,        \* what the call gave its caller: a result or an exception
    ncalls,             \* tool calls made so far
    \* ---- server.py: rendering of one framework event by the two endpoints
    event,              \* the event the runner emitted
    batchPayload,       \* what /run appends to its events list for it
    ssePayload,         \* what /run_sse yields for it
    \* ---- one pass of a workflow agent over its sub-agents
    runTopo,            \* name of the pipeline being run, or None
    started,            \* the member steps that have started, by position
    finished            \* the member steps that have completed

serverVars == <<startupPc, storeRows, agents, pipelines, runner, session_service,
                sessions, reqs, nreq, createCalls, storeFailure>>

gateVars == <<loopPc, ctxState, gate_max_retries, times_looped, gateRuns, gateEvent>>

bridgeVars == <<bridgePc, toolCall, httpLog, httpStatus, toolOutcome, ncalls>>

eventVars == <<event, batchPayload, ssePayload>>

runVars == <<runTopo, started, finished>>

vars == <<serverVars, gateVars, bridgeVars, eventVars, runVars>>

None == "None"

\* ------------------------------------------------------------------ bounds
MaxRequests == 2

\* ---------------------------------------------------------------- helpers
Take(s, n) == SubSeq(s, 1, IF Len(s) < n THEN Len(s) ELSE n)

EmptyDict == [k \in {} |-> None]

DictPut(d, k, v) == [x \in (DOMAIN d) \cup {k} |-> IF x = k THEN v ELSE d[x]]

\* An ADK agent object; the fields the builders set.
AgentObj(name, kind, output_key, sub_agents, max_iterations, max_retries) ==
    [name |-> name, kind |-> kind, output_key |-> output_key,
     sub_agents |-> sub_agents, max_iterations |-> max_iterations,
     max_retries |-> max_retries]

LlmAgent(name, output_key, sub_agents) ==
    AgentObj(name, "llm", output_key, sub_agents, 0, 0)

\* ------------------------------------------------ witcher_agents.py
\* the ordered dict agents[agent_id] = agent: a new key is appended, an
\* existing key keeps its position and takes the new value
OrderedPut(d, h) ==
    IF \E i \in 1..Len(d) : d[i].name = h.name
    THEN [i \in 1..Len(d) |-> IF d[i].name = h.name THEN h ELSE d[i]]
    ELSE Append(d, h)

WitcherAgent(agent_id) == LlmAgent(agent_id, agent_id \o "_output", <<>>)

\* a query without the status filter
OnlineRows_All(rows) == rows

\* the rows the query returns: WHERE status = 'online'
OnlineRows(rows) == SelectSeq(rows, LAMBDA r : r.status = "online")

RECURSIVE BuildFromRows(_, _)
BuildFromRows(rows, acc) ==
    IF rows = <<>> THEN acc
    ELSE BuildFromRows(Tail(rows), OrderedPut(acc, WitcherAgent(Head(rows).id)))

build_witcher_agents(rows) == BuildFromRows(OnlineRows(rows), <<>>)

AgentIds(d) == {d[i].name : i \in 1..Len(d)}

AgentGet(d, id) == d[CHOOSE i \in 1..Len(d) : d[i].name = id]

\* agents.get(id, list(agents.values())[0])
AgentGetOrFirst(d, id) == IF id \in AgentIds(d) THEN AgentGet(d, id) ELSE d[1]

\* ------------------------------------------------ orchestration.py
RECURSIVE _pick_agents(_, _)
_pick_agents(d, ids) ==
    IF ids = <<>> THEN <<>>
    ELSE IF Head(ids) \in AgentIds(d)
         THEN <<AgentGet(d, Head(ids))>> \o _pick_agents(d, Tail(ids))
         ELSE _pick_agents(d, Tail(ids))

\* the fallback without its [:4]
build_code_review_pipeline_NoCap(d) ==
    LET sub == _pick_agents(d, <<"eskel", "vesemir", "geralt", "jaskier">>)
    IN  AgentObj("code_review_pipeline", "sequential", None,
                 IF Len(sub) < 2 THEN d ELSE sub, 0, 0)

build_code_review_pipeline(d) ==
    LET sub == _pick_agents(d, <<"eskel", "vesemir", "geralt", "jaskier">>)
    IN  AgentObj("code_review_pipeline", "sequential", None,
                 IF Len(sub) < 2 THEN Take(d, 4) ELSE sub, 0, 0)

\* the fallback taken only when no named role is present
build_analysis_pipeline_NoneOnly(d) ==
    LET picked == _pick_agents(d, <<"geralt", "ciri", "yennefer">>)
        parallel_agents == IF Len(picked) < 1 THEN Take(d, 3) ELSE picked
        parallel == AgentObj("multi_analysis", "parallel", None, parallel_agents, 0, 0)
        synthesizer == LlmAgent("synthesizer", "synthesis_output", <<>>)
    IN  AgentObj("comprehensive_analysis", "sequential", None,
                 <<parallel, synthesizer>>, 0, 0)

build_analysis_pipeline(d) ==
    LET picked == _pick_agents(d, <<"geralt", "ciri", "yennefer">>)
        parallel_agents == IF Len(picked) < 2 THEN Take(d, 3) ELSE picked
        parallel == AgentObj("multi_analysis", "parallel", None, parallel_agents, 0, 0)
        synthesizer == LlmAgent("synthesizer", "synthesis_output", <<>>)
    IN  AgentObj("comprehensive_analysis", "sequential", None,
                 <<parallel, synthesizer>>, 0, 0)

DefaultMaxRetries == 3

LoopMaxIterations == 5

QualityGateObj(max_retries) ==
    AgentObj("quality_gate", "gate", None, <<>>, 0, max_retries)

build_refinement_loop(d) ==
    LET coder == AgentGetOrFirst(d, "eskel")
        reviewer == LlmAgent("code_reviewer", "review_output", <<>>)
    IN  AgentObj("refinement_loop", "loop", None,
                 <<coder, reviewer, QualityGateObj(DefaultMaxRetries)>>,
                 LoopMaxIterations, 0)

build_all_pipelines(d) ==
    [k \in {"sequential", "parallel", "loop"} |->
        CASE k = "sequential" -> build_code_review_pipeline(d)
          [] k = "parallel"   -> build_analysis_pipeline(d)
          [] k = "loop"       -> build_refinement_loop(d)]

\* ------------------------------------------------ review_pipeline.py
build_review_pipeline(d) ==
    LET generator == AgentGetOrFirst(d, "eskel")
        critic == LlmAgent("critic", "review_result", <<>>)
    IN  AgentObj("review_critique", "sequential", None, <<generator, critic>>, 0, 0)

build_security_review(d) ==
    LET generator == AgentGetOrFirst(d, "eskel")
        security == IF "geralt" \in AgentIds(d)
                    THEN AgentGet(d, "geralt")
                    ELSE LlmAgent("security_reviewer", "security_review_result", <<>>)
    IN  AgentObj("security_review", "sequential", None, <<generator, security>>, 0, 0)

\* ------------------------------------------------ coordinator.py, agent.py
build_coordinator(d) == LlmAgent("coordinator", "coordinator_output", d)

root_agent == LlmAgent("coordinator", "coordinator_output", <<>>)


\* ------------------------------------------------ server.py: startup
Runner(agent) == [agent |-> agent, app_name |-> "geminihydra"]

\* the value of _runner before startup sets it (Python's None)
NoRunner == [agent |-> AgentObj(None, None, None, <<>>, 0, 0), app_name |-> None]

\* contents of gh_agents the model starts from
StoreChoices ==
    { <<>>,
      <<[id |-> "eskel", status |-> "online"], [id |-> "ciri", status |-> "offline"],
        [id |-> "geralt", status |-> "online"]>> }

\* a step of server.py leaves the other components alone
ServerStep == UNCHANGED <<gateVars, bridgeVars, eventVars, runVars>>

\* startup() without _pipelines in its global statement
FinishStartup_LocalPipelines(loaded) ==
    /\ agents' = loaded
    /\ pipelines' = pipelines
    /\ session_service' = "InMemorySessionService"
    /\ runner' = Runner(IF loaded # <<>> THEN build_coordinator(loaded) ELSE root_agent)
    /\ startupPc' = "done"

\* lines 59-76: coordinator and pipelines from _agents, then the runner
FinishStartup(loaded) ==
    /\ agents' = loaded
    /\ pipelines' =
         IF loaded # <<>>
         THEN LET p == build_all_pipelines(loaded)
              IN  DictPut(DictPut(p, "review", build_review_pipeline(loaded)),
                          "security", build_security_review(loaded))
         ELSE pipelines
    /\ session_service' = "InMemorySessionService"
    /\ runner' = Runner(IF loaded # <<>> THEN build_coordinator(loaded) ELSE root_agent)
    /\ startupPc' = "done"

\* asyncpg.create_pool raises: pool = None, _agents = {}, standalone coordinator
StartupConnectFail ==
    /\ ServerStep
    /\ startupPc = "start"
    /\ FinishStartup(<<>>)
    /\ storeFailure' = "connect"
    /\ UNCHANGED <<storeRows, sessions, createCalls, reqs, nreq>>

StartupConnectOk ==
    /\ ServerStep
    /\ startupPc = "start"
    /\ startupPc' = "load"
    /\ UNCHANGED <<storeFailure, storeRows, agents, pipelines, runner, session_service,
                   sessions, createCalls, reqs, nreq>>

\* pool.fetch returns: _agents = await build_witcher_agents(pool)
StartupLoadOk ==
    /\ ServerStep
    /\ startupPc = "load"
    /\ agents' = build_witcher_agents(storeRows)
    /\ startupPc' = "close"
    /\ UNCHANGED <<storeFailure, storeRows, pipelines, runner, session_service, sessions, createCalls, reqs, nreq>>

\* pool.fetch raises inside build_witcher_agents: nothing in startup() catches
\* it, the assignment to _agents never happens and startup() ends there
StartupLoadFail ==
    /\ ServerStep
    /\ startupPc = "load"
    /\ startupPc' = "aborted"
    /\ storeFailure' = "read"
    /\ UNCHANGED <<storeRows, agents, pipelines, runner, session_service,
                   sessions, createCalls, reqs, nreq>>

\* await pool.close() returns, then lines 59-76 without suspension
StartupFinish ==
    /\ ServerStep
    /\ startupPc = "close"
    /\ FinishStartup(agents)
    /\ UNCHANGED <<storeFailure, storeRows, sessions, createCalls, reqs, nreq>>

\* ------------------------------------------------ orchestration.py: the quality gate
MaxRetriesConfig == 7

MaxInitialIteration == 2

\* dict.get(key, default)
Get(d, k, default) == IF k \in DOMAIN d THEN d[k] ELSE default

NoEvent == [author |-> None, escalate |-> FALSE,
            content |-> [review_status |-> None, iteration |-> 0, total |-> 0,
                         max_reached |-> FALSE]]

\* the gate without the approval test
ShouldExit_NoApproval(review_status, iteration, max_retries) ==
    iteration >= max_retries

\* the gate comparing the incremented counter
ShouldExit_PostIncrement(review_status, iteration, max_retries) ==
    review_status = "approved" \/ iteration + 1 >= max_retries

\* line 94
ShouldExit(review_status, iteration, max_retries) ==
    review_status = "approved" \/ iteration >= max_retries

\* lines 96-98: the status message, by its parts
StatusMsg(review_status, iteration, max_retries, should_exit) ==
    [review_status |-> review_status, iteration |-> iteration + 1,
     total |-> max_retries + 1,
     max_reached |-> should_exit /\ review_status # "approved"]

\* QualityGate._run_async_impl: the state it leaves and the event it yields
QualityGateRun(state, max_retries) ==
    LET review_status == Get(state, "review_status", "needs_work")
        iteration == Get(state, "iteration_count", 0)
        should_exit == ShouldExit(review_status, iteration, max_retries)
    IN  [state |-> DictPut(state, "iteration_count", iteration + 1),
         event |-> [author |-> "quality_gate", escalate |-> should_exit,
                    content |-> StatusMsg(review_status, iteration, max_retries,
                                          should_exit)]]

\* a loop built without max_iterations
LoopContinues_NoCap(looped, max_iterations) == TRUE

\* LoopAgent(max_iterations = 5): another cycle is started while fewer than
\* max_iterations cycles have been completed
LoopContinues(looped, max_iterations) == looped < max_iterations

\* ------------------------------------------------ server.py: requests
Absent == "<absent>"

Slots == {"h1", "h2"}

Endpoints == {"run", "run_sse"}

InfoEndpoints == {"list-apps", "health"}

RequestUserIds == {Absent}

RequestSessionIds == {Absent, "s1"}

\* request["newMessage"]["parts"]: a part either has a "text" key or not
NoTextPart == [has_text |-> FALSE, text |-> ""]

TextPart(t) == [has_text |-> TRUE, text |-> t]

\* the message-bearing fields of the request bodies the model sends: parts
\* without any text (with and without a "prompt" field) and parts with text
RequestMessages ==
    { [parts |-> <<>>, prompt |-> Absent],
      [parts |-> <<NoTextPart>>, prompt |-> "from prompt"],
      [parts |-> <<NoTextPart, TextPart("hello")>>, prompt |-> Absent] }

\* request["config"]["pattern"]; None when config or pattern is absent
RequestPatterns == {None, "", "hierarchical", "review", "security", "bogus"}

\* request.get(key, "default")
GetOrDefault(v, default) == IF v = Absent THEN default ELSE v

RECURSIVE FirstText(_)
FirstText(parts) ==
    IF parts = <<>> THEN Absent
    ELSE IF Head(parts).has_text THEN Head(parts).text ELSE FirstText(Tail(parts))

\* whether some part of newMessage.parts has a text field
CarriesText(parts) == \E i \in 1..Len(parts) : parts[i].has_text

\* an extraction without the "prompt" fallback
extract_message_NoPrompt(parts, prompt) ==
    IF FirstText(parts) # Absent THEN FirstText(parts) ELSE ""

_extract_message(parts, prompt) ==
    IF FirstText(parts) # Absent THEN FirstText(parts) ELSE GetOrDefault(prompt, "")

\* a router that falls back to a pipeline when the catalogue has one
get_runner_DefaultsToPipeline(pattern) ==
    IF pattern \in DOMAIN pipelines THEN Runner(pipelines[pattern])
    ELSE IF pipelines # EmptyDict THEN Runner(pipelines["sequential"])
    ELSE runner

_get_runner_for_pattern(pattern) ==
    IF pattern = None \/ pattern = "" \/ pattern = "hierarchical"
       \/ pattern \notin DOMAIN pipelines
    THEN runner
    ELSE Runner(pipelines[pattern])

\* handlers without the readiness check
NotReady_Unchecked == FALSE

\* line 99 / 141: not _runner or not _session_service
NotReady == runner = NoRunner \/ session_service = None

\* what the first QualityGate evaluation of a request read, and whether the
\* reviewer step before it had written review_status
NoGateRead == [iteration |-> -1, review_status |-> None, reviewer_wrote |-> FALSE]

\* the body of a /health or /list-apps response
NoInfo == [status |-> None, agents |-> <<>>, pipelines |-> {}, agent_count |-> -1,
           pipeline_count |-> -1]

IdleReq ==
    [pc |-> "idle", endpoint |-> None, user_id |-> None, session_id |-> None,
     parts |-> <<>>, prompt |-> Absent, message_text |-> None, pattern |-> None,
     agent_runner |-> NoRunner, created |-> FALSE, executed |-> None, response |-> None,
     gate_first |-> NoGateRead, info |-> NoInfo]

SessionKey(r) == <<r.user_id, r.session_id>>

\* a session as create_session makes it: no history, empty state bag
NewSession == [turns |-> 0, state |-> EmptyDict]

\* the reviewer step: sets review_status, or leaves the state bag as it is
ReviewerWrites == {None, "approved", "needs_work"}

AfterReviewer(state, w) == IF w = None THEN state ELSE DictPut(state, "review_status", w)

\* LoopAgent over [coder, reviewer, QualityGate] from the gate of a cycle on:
\* the state bags the run can end with
RECURSIVE RunLoopFromGate(_, _, _)
RunLoopFromGate(state, looped, loop) ==
    LET r == QualityGateRun(state, loop.sub_agents[3].max_retries)
    IN  IF r.event.escalate \/ ~LoopContinues(looped + 1, loop.max_iterations)
        THEN {r.state}
        ELSE UNION { RunLoopFromGate(AfterReviewer(r.state, w), looped + 1, loop) :
                     w \in ReviewerWrites }

\* lines 99-100 / 141-144: the module globals are not set yet
ReqNotReady(h) ==
    /\ ServerStep
    /\ reqs[h].pc = "idle"
    /\ nreq < MaxRequests
    /\ NotReady
    /\ \E e \in Endpoints, pat \in RequestPatterns, m \in RequestMessages :
         reqs' = [reqs EXCEPT ![h] =
                    [IdleReq EXCEPT !.pc = "done", !.endpoint = e, !.pattern = pat,
                                    !.parts = m.parts, !.prompt = m.prompt,
                                    !.response = "ADK not initialized"]]
    /\ nreq' = nreq + 1
    /\ UNCHANGED <<startupPc, storeFailure, storeRows, agents, pipelines, runner, session_service,
                   sessions, createCalls>>

\* lines 102-112 / 146-155: read the request, select the runner, look the
\* session up; the request is one the clients send
ReqBeginWith(h, messages, patterns) ==
    /\ ServerStep
    /\ reqs[h].pc = "idle"
    /\ nreq < MaxRequests
    /\ ~NotReady
    /\ \E e \in Endpoints, u \in RequestUserIds, sid \in RequestSessionIds,
          m \in messages, pat \in patterns :
         LET key == <<GetOrDefault(u, "default"), GetOrDefault(sid, "default")>>
         IN  reqs' = [reqs EXCEPT ![h] =
                    [IdleReq EXCEPT
                       !.pc = IF key \in DOMAIN sessions THEN "run" ELSE "create",
                       !.endpoint = e, !.user_id = key[1], !.session_id = key[2],
                       !.parts = m.parts, !.prompt = m.prompt,
                       !.message_text = _extract_message(m.parts, m.prompt),
                       !.pattern = pat,
                       !.agent_runner = _get_runner_for_pattern(pat)]]
    /\ nreq' = nreq + 1
    /\ UNCHANGED <<startupPc, storeFailure, storeRows, agents, pipelines, runner, session_service,
                   sessions, createCalls>>

ReqBegin(h) == ReqBeginWith(h, RequestMessages, RequestPatterns)

\* clients that send text and use the refinement loop among the selectors
SessionMessages == {m \in RequestMessages : CarriesText(m.parts)}

SessionPatterns == {None, "loop", "security", "bogus"}

SessionReqBegin(h) == ReqBeginWith(h, SessionMessages, SessionPatterns)

\* lines 113-116 / 156-159: the lookup returned nothing, create the session
ReqCreateSession(h) ==
    /\ ServerStep
    /\ reqs[h].pc = "create"
    /\ sessions' = DictPut(sessions, SessionKey(reqs[h]), NewSession)
    /\ createCalls' = DictPut(createCalls, SessionKey(reqs[h]),
                              Get(createCalls, SessionKey(reqs[h]), 0) + 1)
    /\ reqs' = [reqs EXCEPT ![h].pc = "run", ![h].created = TRUE]
    /\ UNCHANGED <<startupPc, storeFailure, storeRows, agents, pipelines, runner, session_service,
                   nreq>>

\* lines 118-133 / 161-208: one pass of the selected runner's agent on the
\* session; the refinement loop reads and writes the session's state bag
ReqRun(h) ==
    /\ ServerStep
    /\ reqs[h].pc = "run"
    /\ LET key == SessionKey(reqs[h])
           agent == reqs[h].agent_runner.agent
           state == sessions[key].state
       IN  IF agent.kind = "loop"
           THEN \E w \in ReviewerWrites :
                  LET s1 == AfterReviewer(state, w)
                  IN  \E final \in RunLoopFromGate(s1, 0, agent) :
                        /\ sessions' = [sessions EXCEPT ![key].turns = @ + 1,
                                                         ![key].state = final]
                        /\ reqs' = [reqs EXCEPT
                              ![h].pc = "done",
                              ![h].executed = agent.name,
                              ![h].response = "events",
                              ![h].gate_first =
                                 [iteration |-> Get(s1, "iteration_count", 0),
                                  review_status |-> Get(s1, "review_status", "needs_work"),
                                  reviewer_wrote |-> w # None]]
           ELSE /\ sessions' = [sessions EXCEPT ![key].turns = @ + 1]
                /\ reqs' = [reqs EXCEPT ![h].pc = "done",
                                        ![h].executed = agent.name,
                                        ![h].response = "events"]
    /\ UNCHANGED createCalls
    /\ UNCHANGED <<startupPc, storeFailure, storeRows, agents, pipelines, runner, session_service,
                   nreq>>

\* lines 79-93: /list-apps and /health read the module globals, before or
\* after startup
ReqInfo(h) ==
    /\ ServerStep
    /\ reqs[h].pc = "idle"
    /\ nreq < MaxRequests
    /\ \E e \in InfoEndpoints :
         reqs' = [reqs EXCEPT ![h] =
                    [IdleReq EXCEPT
                       !.pc = "done", !.endpoint = e,
                       !.info = IF e = "list-apps"
                                THEN [NoInfo EXCEPT
                                        !.status = IF runner # NoRunner THEN "ready"
                                                   ELSE "initializing",
                                        !.agents = [i \in 1..Len(agents) |-> agents[i].name],
                                        !.pipelines = DOMAIN pipelines]
                                ELSE [NoInfo EXCEPT
                                        !.status = "ok",
                                        !.agent_count = Len(agents),
                                        !.pipeline_count = Cardinality(DOMAIN pipelines)]]]
    /\ nreq' = nreq + 1
    /\ UNCHANGED <<startupPc, storeFailure, storeRows, agents, pipelines, runner, session_service,
                   sessions, createCalls>>

\* the handler has returned; the slot takes the next request
ReqReturn(h) ==
    /\ ServerStep
    /\ reqs[h].pc = "done"
    /\ reqs' = [reqs EXCEPT ![h] = IdleReq]
    /\ UNCHANGED <<startupPc, storeFailure, storeRows, agents, pipelines, runner, session_service,
                   sessions, createCalls, nreq>>

ServerInit ==
    /\ startupPc = "start"
    /\ storeFailure = None
    /\ storeRows \in StoreChoices
    /\ agents = <<>>
    /\ pipelines = EmptyDict
    /\ runner = NoRunner
    /\ session_service = None
    /\ sessions = EmptyDict
    /\ createCalls = EmptyDict
    /\ reqs = [h \in Slots |-> IdleReq]
    /\ nreq = 0

ServerNext ==
    \/ StartupConnectFail
    \/ StartupConnectOk
    \/ StartupLoadOk
    \/ StartupLoadFail
    \/ StartupFinish
    \/ \E h \in Slots : ReqNotReady(h)
    \/ \E h \in Slots : ReqBegin(h)
    \/ \E h \in Slots : ReqCreateSession(h)
    \/ \E h \in Slots : ReqRun(h)
    \/ \E h \in Slots : ReqInfo(h)
    \/ \E h \in Slots : ReqReturn(h)


\* ------------------------------------------------ orchestration.py: the loop at run time
GateStep == UNCHANGED <<serverVars, bridgeVars, eventVars, runVars>>

\* sub_agents[0]: the coder writes its own output key only
LoopCoder ==
    /\ GateStep
    /\ loopPc = "coder"
    /\ loopPc' = "reviewer"
    /\ UNCHANGED <<ctxState, gate_max_retries, times_looped, gateRuns, gateEvent>>

\* sub_agents[1]: the reviewer approves, asks for more work, or leaves
\* review_status as it found it
LoopReviewer ==
    /\ GateStep
    /\ loopPc = "reviewer"
    /\ \/ \E v \in {"approved", "needs_work"} :
            ctxState' = DictPut(ctxState, "review_status", v)
       \/ UNCHANGED ctxState
    /\ loopPc' = "gate"
    /\ UNCHANGED <<gate_max_retries, times_looped, gateRuns, gateEvent>>

\* the coder's or the reviewer's model call or tool call raises: the
\* exception leaves the LoopAgent and the run is over
LoopStepRaises ==
    /\ GateStep
    /\ loopPc \in {"coder", "reviewer"}
    /\ loopPc' = "done"
    /\ UNCHANGED <<ctxState, gate_max_retries, times_looped, gateRuns, gateEvent>>

\* sub_agents[2]: the QualityGate; the LoopAgent returns when the event
\* escalates, otherwise the cycle is complete and the cap is consulted
LoopGate ==
    /\ GateStep
    /\ loopPc = "gate"
    /\ LET r == QualityGateRun(ctxState, gate_max_retries)
       IN  /\ ctxState' = r.state
           /\ gateEvent' = r.event
           /\ gateRuns' = gateRuns + 1
           /\ IF r.event.escalate
              THEN /\ loopPc' = "done"
                   /\ UNCHANGED times_looped
              ELSE /\ times_looped' = times_looped + 1
                   /\ loopPc' = IF LoopContinues(times_looped + 1, LoopMaxIterations)
                                THEN "coder" ELSE "done"
    /\ UNCHANGED gate_max_retries

GateIdle ==
    /\ loopPc = "done"
    /\ ctxState = EmptyDict
    /\ gate_max_retries = DefaultMaxRetries
    /\ times_looped = 0
    /\ gateRuns = 0
    /\ gateEvent = NoEvent

\* a run of the loop on a session whose state bag holds any loop-control
\* values, with any configured retry budget
GateInit ==
    /\ loopPc = "coder"
    /\ \E st \in {Absent, "needs_work", "approved"},
          it \in {-1} \cup (0..MaxInitialIteration) :
         ctxState = [k \in (IF st = Absent THEN {} ELSE {"review_status"})
                            \cup (IF it = -1 THEN {} ELSE {"iteration_count"}) |->
                       IF k = "review_status" THEN st ELSE it]
    /\ gate_max_retries \in 0..MaxRetriesConfig
    /\ times_looped = 0
    /\ gateRuns = 0
    /\ gateEvent = NoEvent

GateNext == LoopCoder \/ LoopReviewer \/ LoopStepRaises \/ LoopGate


\* ------------------------------------------------ tools/bridge.py
MaxToolCalls == 2

SearchLimitDefault == 80

SearchLimits == {SearchLimitDefault, 150, 151, 1000}

HttpStatuses == {200, 201, 301, 404, 500}

\* a call of one of the bridge tools by an agent step
ToolCalls ==
    [tool : {"search_files"}, file_extensions : {"", "rs,py"}, limit : SearchLimits]
    \cup [tool : {"read_file", "execute_command"}, file_extensions : {""},
          limit : {SearchLimitDefault}]

NoCall == [tool |-> None, file_extensions |-> "", limit |-> 0]

\* lines 80-83: the args search_files builds
SearchArgs(c) ==
    LET args == [k \in {"path", "pattern", "offset", "limit", "multiline"} |->
                   CASE k = "path" -> "C:/repo"
                     [] k = "pattern" -> "TODO"
                     [] k = "offset" -> 0
                     [] k = "limit" -> c.limit
                     [] k = "multiline" -> FALSE]
    IN  IF c.file_extensions # ""
        THEN DictPut(args, "file_extensions", c.file_extensions)
        ELSE args

\* the args each wrapper hands to _call_tool
ToolArgs(c) ==
    CASE c.tool = "search_files" -> SearchArgs(c)
      [] c.tool = "read_file" -> [k \in {"path"} |-> "C:/repo/main.rs"]
      [] c.tool = "execute_command" -> [k \in {"command"} |-> "dir"]

\* a status check that lets client errors and redirects through
RaisesForStatus_ServerOnly(status) == status >= 500

\* line 20: resp.raise_for_status() raises unless the status is 2xx
RaisesForStatus(status) == ~(200 <= status /\ status <= 299)

NoOutcome == [kind |-> "none", result |-> None]

BridgeStep == UNCHANGED <<serverVars, gateVars, eventVars, runVars>>

\* lines 18-19: the wrapper builds its args and _call_tool posts them
BridgeCall ==
    /\ BridgeStep
    /\ bridgePc = "idle"
    /\ ncalls < MaxToolCalls
    /\ \E c \in ToolCalls :
         /\ toolCall' = c
         /\ httpLog' = Append(httpLog, [name |-> c.tool, args |-> ToolArgs(c)])
    /\ ncalls' = ncalls + 1
    /\ bridgePc' = "sent"
    /\ UNCHANGED <<httpStatus, toolOutcome>>

\* lines 20-21: the backend answered
BridgeResponse ==
    /\ BridgeStep
    /\ bridgePc = "sent"
    /\ \E st \in HttpStatuses :
         /\ httpStatus' = st
         /\ toolOutcome' = IF RaisesForStatus(st)
                           THEN [kind |-> "raise", result |-> None]
                           ELSE [kind |-> "return", result |-> "resp.json()"]
    /\ bridgePc' = "finished"
    /\ UNCHANGED <<toolCall, httpLog, ncalls>>

\* line 19: client.post itself raises (timeout, connection refused)
BridgeTransportError ==
    /\ BridgeStep
    /\ bridgePc = "sent"
    /\ httpStatus' = 0
    /\ toolOutcome' = [kind |-> "raise", result |-> None]
    /\ bridgePc' = "finished"
    /\ UNCHANGED <<toolCall, httpLog, ncalls>>

\* the calling step has the outcome; the bridge is free for the next call
BridgeDone ==
    /\ BridgeStep
    /\ bridgePc = "finished"
    /\ bridgePc' = "idle"
    /\ toolCall' = NoCall
    /\ httpStatus' = 0
    /\ toolOutcome' = NoOutcome
    /\ UNCHANGED <<httpLog, ncalls>>

BridgeIdle ==
    /\ bridgePc = "idle"
    /\ toolCall = NoCall
    /\ httpLog = <<>>
    /\ httpStatus = 0
    /\ toolOutcome = NoOutcome
    /\ ncalls = 0

BridgeNext == BridgeCall \/ BridgeResponse \/ BridgeTransportError \/ BridgeDone


\* ------------------------------------------------ server.py: event payloads
\* google.genai Part: text, function_call and function_response are always
\* attributes of it, and are None when not set
NoFunction == [name |-> None, args |-> None]

Part(text, function_call, function_response) ==
    [text |-> text, function_call |-> function_call,
     function_response |-> function_response]

TextOnly(t) == Part(t, NoFunction, NoFunction)

CallPart == Part("", [name |-> "read_file", args |-> "{path}"], NoFunction)

ResponsePart == Part("", NoFunction, [name |-> "read_file", args |-> None])

\* event.content: None, a plain str (QualityGate passes its status message),
\* or a Content with parts and a role
NoContent == [type |-> "NoneType", str |-> "", parts |-> <<>>, role |-> None]

StrContent(t) == [type |-> "str", str |-> t, parts |-> <<>>, role |-> None]

Content(parts, role) == [type |-> "Content", str |-> "", parts |-> parts, role |-> role]

EventContents ==
    { NoContent, StrContent("Quality gate: approved (iteration 1/4)"),
      Content(<<TextOnly("a")>>, "model"),
      Content(<<TextOnly("a"), TextOnly("b")>>, "model"),
      Content(<<CallPart>>, "model"),
      Content(<<TextOnly("a"), CallPart>>, "model"),
      Content(<<ResponsePart>>, "user") }

\* event.actions: an EventActions object with its two optional fields
EventActions == [escalate : BOOLEAN, transfer_to_agent : {None, "geralt"}]

Events == [author : {"eskel", "quality_gate"}, content : EventContents,
           actions : EventActions, timestamp : {1700000000}]

NotRendered == [k \in {"<not rendered>"} |-> None]

\* the generator dies with the exception: no payload reaches the client
StreamRaised == [k \in {"<AttributeError>"} |-> None]

\* str(obj): the object's printed form
Str(obj) == [str_of |-> obj]

\* lines 127-131: the dict /run appends for an event
BatchEventData(ev) ==
    [k \in {"author", "content", "actions"} |->
       CASE k = "author" -> ev.author
         [] k = "content" -> Str(ev.content)
         [] k = "actions" -> Str(ev.actions)]

\* "\n".join(text_parts)
RECURSIVE JoinLines(_)
JoinLines(text_parts) ==
    IF Len(text_parts) = 1 THEN Head(text_parts)
    ELSE Head(text_parts) \o "\n" \o JoinLines(Tail(text_parts))

\* lines 181-192: the loop over content.parts.  acc carries event_data,
\* text_parts and whether an attribute access on None has raised
RECURSIVE ScanParts(_, _)
ScanParts(parts, acc) ==
    IF parts = <<>> \/ acc.raised THEN acc
    ELSE LET part == Head(parts)
         IN  IF part.text # None /\ part.text # ""
             THEN ScanParts(Tail(parts),
                            [acc EXCEPT !.text_parts = Append(@, part.text)])
             \* hasattr(part, "function_call") holds for every Part
             ELSE IF part.function_call = NoFunction
                  THEN [acc EXCEPT !.raised = TRUE]
                  ELSE ScanParts(Tail(parts),
                         [acc EXCEPT !.data = DictPut(@, "function_call",
                              [name |-> part.function_call.name,
                               args |-> part.function_call.args])])

\* lines 172-206: the event_data /run_sse builds for an event, before json.dumps
SseEventData(ev) ==
    LET base == [k \in {"author", "timestamp"} |->
                   IF k = "author" THEN ev.author ELSE ev.timestamp]
        scanned == IF ev.content.type = "Content"
                   THEN ScanParts(ev.content.parts,
                                  [data |-> base, text_parts |-> <<>>, raised |-> FALSE])
                   ELSE [data |-> base, text_parts |-> <<>>, raised |-> FALSE]
        withText == IF scanned.text_parts # <<>>
                    THEN DictPut(scanned.data, "text", JoinLines(scanned.text_parts))
                    ELSE scanned.data
        withRole == IF ev.content.type = "Content"
                    THEN DictPut(withText, "role", ev.content.role)
                    ELSE withText
        withEsc == IF ev.actions.escalate
                   THEN DictPut(withRole, "escalate", TRUE)
                   ELSE withRole
        withTransfer == IF ev.actions.transfer_to_agent # None
                        THEN DictPut(withEsc, "transfer_to_agent",
                                     ev.actions.transfer_to_agent)
                        ELSE withEsc
    IN  IF scanned.raised THEN StreamRaised ELSE withTransfer

EventStep == UNCHANGED <<serverVars, gateVars, bridgeVars, runVars>>

RenderBatch ==
    /\ EventStep
    /\ batchPayload = NotRendered
    /\ batchPayload' = BatchEventData(event)
    /\ UNCHANGED <<event, ssePayload>>

RenderSse ==
    /\ EventStep
    /\ ssePayload = NotRendered
    /\ ssePayload' = SseEventData(event)
    /\ UNCHANGED <<event, batchPayload>>

NoFrameworkEvent ==
    [author |-> None, content |-> NoContent,
     actions |-> [escalate |-> FALSE, transfer_to_agent |-> None], timestamp |-> 0]

EventIdle ==
    /\ event = NoFrameworkEvent
    /\ batchPayload = NotRendered
    /\ ssePayload = NotRendered

EventInit ==
    /\ event \in Events
    /\ batchPayload = NotRendered
    /\ ssePayload = NotRendered

EventNext == RenderBatch \/ RenderSse

\* ------------------------------------------------ workflow agents at run time
WorkflowKinds == {"sequential", "parallel", "loop"}

\* the member steps of a workflow agent, by position: <<i>> for a sub-agent
\* that is a step itself, <<i, j>> for the steps of a nested workflow agent
LeafPaths(t) ==
    UNION { IF t.sub_agents[i].kind \in WorkflowKinds
            THEN {<<i, j>> : j \in 1..Len(t.sub_agents[i].sub_agents)}
            ELSE {<<i>>}
            : i \in 1..Len(t.sub_agents) }

\* sub-agent i of t, with all its steps, has completed
SubAgentDone(t, i, done) == \A q \in LeafPaths(t) : q[1] = i => q \in done

\* SequentialAgent runs its sub-agents one after the other, each to
\* completion; ParallelAgent starts its sub-agents in no particular order
CanStart(t, path, done) ==
    /\ t.kind = "sequential" => \A k \in 1..(path[1] - 1) : SubAgentDone(t, k, done)
    /\ (Len(path) = 2 /\ t.sub_agents[path[1]].kind = "sequential") =>
         \A k \in 1..(path[2] - 1) : <<path[1], k>> \in done

RunStep == UNCHANGED <<serverVars, gateVars, bridgeVars, eventVars>>

\* a request selects the sequential or the parallel pipeline
RunBegin ==
    /\ RunStep
    /\ startupPc = "done"
    /\ runTopo = None
    /\ \E k \in {"sequential", "parallel"} \cap DOMAIN pipelines : runTopo' = k
    /\ UNCHANGED <<started, finished>>

RunStepStart ==
    /\ RunStep
    /\ runTopo # None
    /\ \E path \in LeafPaths(pipelines[runTopo]) \ started :
         /\ CanStart(pipelines[runTopo], path, finished)
         /\ started' = started \cup {path}
    /\ UNCHANGED <<runTopo, finished>>

RunStepFinish ==
    /\ RunStep
    /\ runTopo # None
    /\ \E path \in started \ finished : finished' = finished \cup {path}
    /\ UNCHANGED <<runTopo, started>>

RunIdle ==
    /\ runTopo = None
    /\ started = {}
    /\ finished = {}

\* ------------------------------------------------ specifications
ServerIdle ==
    /\ startupPc = "start"
    /\ storeFailure = None
    /\ storeRows = <<>>
    /\ agents = <<>>
    /\ pipelines = EmptyDict
    /\ runner = NoRunner
    /\ session_service = None
    /\ sessions = EmptyDict
    /\ createCalls = EmptyDict
    /\ reqs = [h \in Slots |-> IdleReq]
    /\ nreq = 0

\* the server with clients that use the refinement loop
SessionNext ==
    \/ StartupConnectFail
    \/ StartupConnectOk
    \/ StartupLoadOk
    \/ StartupLoadFail
    \/ StartupFinish
    \/ \E h \in Slots : ReqNotReady(h)
    \/ \E h \in Slots : SessionReqBegin(h)
    \/ \E h \in Slots : ReqCreateSession(h)
    \/ \E h \in Slots : ReqRun(h)
    \/ \E h \in Slots : ReqInfo(h)
    \/ \E h \in Slots : ReqReturn(h)

SessionSpecInit == ServerInit /\ GateIdle /\ BridgeIdle /\ EventIdle /\ RunIdle

SessionSpec == SessionSpecInit /\ [][SessionNext]_vars

\* the server: startup and the request handlers
Init == ServerInit /\ GateIdle /\ BridgeIdle /\ EventIdle /\ RunIdle

Next == ServerNext

Spec == Init /\ [][Next]_vars

\* one run of the refinement loop
GateSpecInit == ServerIdle /\ GateInit /\ BridgeIdle /\ EventIdle /\ RunIdle

GateSpec == GateSpecInit /\ [][GateNext]_vars

\* the tool bridge
BridgeSpecInit == ServerIdle /\ GateIdle /\ BridgeIdle /\ EventIdle /\ RunIdle

BridgeSpec == BridgeSpecInit /\ [][BridgeNext]_vars

\* the two renderings of one event
EventSpecInit == ServerIdle /\ GateIdle /\ BridgeIdle /\ EventInit /\ RunIdle

EventSpec == EventSpecInit /\ [][EventNext]_vars


\* ------------------------------------------------ properties
Approved(state) ==
    "review_status" \in DOMAIN state /\ state["review_status"] = "approved"

GateHasRun == gateRuns' = gateRuns + 1

\* C1: whenever the QualityGate runs, whatever iteration_count holds, its
\* event is exit-approved (escalate without the max-iterations note) exactly
\* when the review_status in the state it read is "approved"; a missing
\* review_status never gives exit-approved.
C1_ExitApprovedIffApproved ==
    [][GateHasRun =>
         /\ (gateEvent'.escalate /\ ~gateEvent'.content.max_reached)
              <=> Approved(ctxState)
         /\ "review_status" \notin DOMAIN ctxState
              => /\ gateEvent'.content.review_status = "needs_work"
                 /\ ~(gateEvent'.escalate /\ ~gateEvent'.content.max_reached)]_vars

\* C1 witness: exit-approved on an evaluation whose iteration is already
\* past the retry budget
C1_Witness ==
    /\ gateEvent.author = "quality_gate"
    /\ gateEvent.escalate /\ ~gateEvent.content.max_reached
    /\ gateEvent.content.iteration > gate_max_retries + 1

\* C2 as the spec states it: on an evaluation without approval the gate
\* increments iteration_count by one and signals exit-exhausted exactly when
\* the incremented value is >= max_retries.
C2_ExhaustedAtMaxRetries ==
    [][(GateHasRun /\ ~Approved(ctxState)) =>
         /\ ctxState'["iteration_count"] = Get(ctxState, "iteration_count", 0) + 1
         /\ (gateEvent'.escalate /\ gateEvent'.content.max_reached)
              <=> ctxState'["iteration_count"] >= gate_max_retries]_vars

\* C2 amended: on an evaluation without approval the gate increments
\* iteration_count by one and signals exit-exhausted exactly when the value
\* it read, before the increment, is >= max_retries: the value written back
\* is then max_retries + 1 or more.  Otherwise it signals continue.
C2_ExhaustedPastMaxRetries ==
    /\ [][(GateHasRun /\ ~Approved(ctxState)) =>
            /\ ctxState'["iteration_count"] = Get(ctxState, "iteration_count", 0) + 1
            /\ (gateEvent'.escalate /\ gateEvent'.content.max_reached)
                 <=> ctxState'["iteration_count"] >= gate_max_retries + 1
            /\ ~gateEvent'.escalate
                 <=> ctxState'["iteration_count"] <= gate_max_retries]_vars
    \* from iteration_count = 0 (then the counter equals the number of
    \* evaluations) the exhausted exit is the evaluation max_retries + 1
    /\ []((/\ gateRuns >= 1
           /\ ctxState["iteration_count"] = gateRuns
           /\ gateEvent.content.max_reached) => gateRuns = gate_max_retries + 1)

\* C2 witness: the default budget of 3, never approved from a fresh state:
\* the exhausted exit on the 4th evaluation, iteration_count = 4
C2_Witness ==
    /\ gate_max_retries = DefaultMaxRetries
    /\ gateRuns = DefaultMaxRetries + 1
    /\ gateEvent.escalate /\ gateEvent.content.max_reached
    /\ ctxState["iteration_count"] = DefaultMaxRetries + 1

\* C3: whatever the reviewer does and whatever max_retries is, a run of the
\* refinement loop completes at most 5 cycles and runs the gate at most 5
\* times; once 5 cycles are complete the loop is over.
C3_AtMostFiveCycles ==
    /\ times_looped <= 5
    /\ gateRuns <= 5
    /\ times_looped = 5 => loopPc = "done"

\* C3 witness: a budget above the cap, never exhausted nor approved: the
\* loop ends after its 5th cycle on the cap alone
C3_Witness ==
    /\ loopPc = "done"
    /\ times_looped = 5
    /\ gate_max_retries > 5
    /\ ~gateEvent.escalate

\* a request to /run or /run_sse that got past the not-initialized test
Handled(r) ==
    r.pc # "idle" /\ r.endpoint \in Endpoints /\ r.response # "ADK not initialized"

\* C4: after startup, a request whose selector is absent, empty,
\* "hierarchical" or not in the catalogue is given the coordinator's runner
\* and executes the coordinator, no pipeline; a selector naming a catalogue
\* entry executes that entry.  With an empty catalogue it is always the
\* coordinator.
C4_SelectorResolves ==
    \A h \in Slots :
      LET r == reqs[h]
      IN  Handled(r) =>
            /\ IF r.pattern \in {None, "", "hierarchical"}
                  \/ r.pattern \notin DOMAIN pipelines
               THEN /\ r.agent_runner = runner
                    /\ r.agent_runner.agent.name = "coordinator"
                    /\ \A k \in DOMAIN pipelines : pipelines[k] # r.agent_runner.agent
               ELSE r.agent_runner.agent = pipelines[r.pattern]
            /\ r.pc = "done" => r.executed = r.agent_runner.agent.name
            /\ pipelines = EmptyDict => r.agent_runner.agent = root_agent

\* C4 witness: one request with an unknown selector has executed the
\* coordinator while another, naming "security", has executed that pipeline
C4_Witness ==
    /\ reqs["h1"].pc = "done" /\ reqs["h1"].pattern = "bogus"
    /\ reqs["h1"].executed = "coordinator"
    /\ reqs["h2"].pc = "done" /\ reqs["h2"].pattern = "security"
    /\ reqs["h2"].executed = "security_review"

\* C5 as the spec states it: a request none of whose parts has a text field
\* fails with an invalid-request error; no session is created for it and no
\* topology is executed.
C5_NoTextRejected ==
    \A h \in Slots :
      LET r == reqs[h]
      IN  (Handled(r) /\ ~CarriesText(r.parts)) =>
            /\ ~r.created
            /\ r.executed = None
            /\ r.pc = "done" => r.response = "InvalidRequestError"

\* C5 amended: a request none of whose parts has a text field is not
\* rejected: its message text is the request's "prompt" field, or the empty
\* string when there is none, and it is processed like any other request,
\* its session looked up or created and the selected topology executed.
C5_NoTextFallsBack ==
    \A h \in Slots :
      LET r == reqs[h]
      IN  (Handled(r) /\ ~CarriesText(r.parts)) =>
            /\ r.message_text = IF r.prompt = Absent THEN "" ELSE r.prompt
            /\ r.response # "InvalidRequestError"
            /\ r.pc = "run" => SessionKey(r) \in DOMAIN sessions
            /\ r.pc = "done" =>
                 /\ r.response = "events"
                 /\ r.executed = r.agent_runner.agent.name
                 /\ SessionKey(r) \in DOMAIN sessions

\* C5 witness: a request without text and without prompt has created its
\* session and executed a topology
C5_Witness ==
    \E h \in Slots :
      /\ reqs[h].pc = "done"
      /\ ~CarriesText(reqs[h].parts)
      /\ reqs[h].message_text = ""
      /\ reqs[h].created
      /\ reqs[h].executed # None

\* C6: a request taken by either endpoint while _runner or _session_service
\* is unset ends at once with the not-initialized error and changes nothing
\* else: no session, no execution, agents and pipelines as they were.
C6_NotReadyNoEffect ==
    [][\A h \in Slots :
         (/\ reqs[h].pc = "idle"
          /\ reqs'[h].pc # "idle"
          /\ reqs'[h].endpoint \in Endpoints
          /\ runner = NoRunner \/ session_service = None) =>
           /\ reqs'[h].pc = "done"
           /\ reqs'[h].response = "ADK not initialized"
           /\ ~reqs'[h].created
           /\ reqs'[h].executed = None
           /\ sessions' = sessions
           /\ agents' = agents
           /\ pipelines' = pipelines
           /\ runner' = runner]_vars

\* C6 witness: both endpoints have answered not-initialized while startup
\* was between loading the agents and building the runner
C6_Witness ==
    /\ startupPc = "close"
    /\ agents # <<>>
    /\ \E h \in Slots : /\ reqs[h].endpoint = "run"
                        /\ reqs[h].response = "ADK not initialized"
    /\ \E h \in Slots : /\ reqs[h].endpoint = "run_sse"
                        /\ reqs[h].response = "ADK not initialized"

\* C7: whichever call to the definition store fails during startup, the
\* connect or the read of the definitions, startup completes with the
\* standalone coordinator, no agents and no pipelines.
C7_StoreFailureDegrades ==
    storeFailure # None =>
      /\ startupPc = "done"
      /\ runner = Runner(root_agent)
      /\ session_service # None
      /\ agents = <<>>
      /\ pipelines = EmptyDict

\* C8: every bridge call posts exactly one request; a response whose status
\* is not 2xx, or no response at all, raises to the caller, who gets no
\* result mapping; nothing is posted again for the call.
C8_OneRequestAndRaise ==
    /\ Len(httpLog) = ncalls
    /\ bridgePc # "idle" => httpLog[ncalls].name = toolCall.tool
    /\ bridgePc = "sent" => toolOutcome = NoOutcome
    /\ bridgePc = "finished" =>
         /\ toolOutcome.kind \in {"raise", "return"}
         /\ ~(200 <= httpStatus /\ httpStatus <= 299) =>
              (toolOutcome.kind = "raise" /\ toolOutcome.result = None)

\* C8 witness: the second call got a 500 and raised, with two requests
\* posted in all
C8_Witness ==
    /\ bridgePc = "finished"
    /\ httpStatus = 500
    /\ toolOutcome.kind = "raise"
    /\ ncalls = 2 /\ Len(httpLog) = 2

\* C9: no search_files request posted to the backend carries a limit
\* above 150.
C9_LimitAtMost150 ==
    \A i \in 1..Len(httpLog) :
      httpLog[i].name = "search_files" => httpLog[i].args["limit"] <= 150

\* C10: for one event, the payload of the batch endpoint and the payload of
\* the streaming endpoint have the same fields.
C10_SameShape ==
    (batchPayload # NotRendered /\ ssePayload # NotRendered) =>
      DOMAIN batchPayload = DOMAIN ssePayload


\* ------------------------------------------------ the Agent Loader at startup
MaxLoaderRows == 3

LoaderIds == {"eskel", "geralt", "ciri", "zoltan"}

LoaderStatuses == {"online", "offline", "busy"}

\* tables of at most MaxLoaderRows definitions with pairwise distinct ids
\* (id is the key of gh_agents), in created_at order
LoaderTables ==
    UNION { { t \in [1..n -> [id : LoaderIds, status : LoaderStatuses]] :
                \A i, j \in 1..n : i # j => t[i].id # t[j].id }
            : n \in 0..MaxLoaderRows }

LoaderInit ==
    /\ startupPc = "start"
    /\ storeFailure = None
    /\ storeRows \in LoaderTables
    /\ agents = <<>>
    /\ pipelines = EmptyDict
    /\ runner = NoRunner
    /\ session_service = None
    /\ sessions = EmptyDict
    /\ createCalls = EmptyDict
    /\ reqs = [h \in Slots |-> IdleReq]
    /\ nreq = 0

LoaderNext ==
    \/ StartupConnectFail
    \/ StartupConnectOk
    \/ StartupLoadOk
    \/ StartupLoadFail
    \/ StartupFinish

LoaderSpecInit == LoaderInit /\ GateIdle /\ BridgeIdle /\ EventIdle /\ RunIdle

LoaderSpec == LoaderSpecInit /\ [][LoaderNext]_vars

OnlineIds == {storeRows[i].id : i \in {j \in 1..Len(storeRows) :
                                         storeRows[j].status = "online"}}

\* C11: once the loader has returned, the mapping holds exactly one handle
\* per definition whose status is "online", under that definition's id, with
\* output key id + "_output", in the order of the table, and no handle for a
\* definition with any other status.
C11_OnlineOnly ==
    (startupPc \in {"close", "done"} /\ storeFailure = None) =>
      /\ AgentIds(agents) = OnlineIds
      /\ Len(agents) = Cardinality(OnlineIds)
      /\ \A i \in 1..Len(agents) :
           /\ agents[i].output_key = agents[i].name \o "_output"
           /\ agents[i].kind = "llm"
      /\ \A i \in 1..Len(storeRows) :
           storeRows[i].status # "online" => storeRows[i].id \notin AgentIds(agents)
      /\ \A i, j \in 1..Len(agents) :
           i < j => \E a, b \in 1..Len(storeRows) :
                      a < b /\ storeRows[a].id = agents[i].name
                            /\ storeRows[b].id = agents[j].name

\* C11 witness: a table of three definitions, one of them not online, has
\* been loaded into a mapping of two handles
C11_Witness ==
    /\ startupPc = "done"
    /\ Len(storeRows) = 3
    /\ storeRows[2].status = "offline"
    /\ Len(agents) = 2
    /\ agents[2].name = storeRows[3].id


\* ------------------------------------------------ the topologies built at startup
MaxAgents == 5

TopologyIds == {"eskel", "vesemir", "geralt", "jaskier", "ciri", "yennefer",
                "zoltan", "triss"}

\* tables of at most MaxAgents online definitions with pairwise distinct ids
OnlineTables ==
    UNION { { t \in [1..n -> [id : TopologyIds, status : {"online"}]] :
                \A i, j \in 1..n : i # j => t[i].id # t[j].id }
            : n \in 0..MaxAgents }

TopologyInit ==
    /\ startupPc = "start"
    /\ storeFailure = None
    /\ storeRows \in OnlineTables
    /\ agents = <<>>
    /\ pipelines = EmptyDict
    /\ runner = NoRunner
    /\ session_service = None
    /\ sessions = EmptyDict
    /\ createCalls = EmptyDict
    /\ reqs = [h \in Slots |-> IdleReq]
    /\ nreq = 0

TopologyNext ==
    \/ StartupConnectOk
    \/ StartupLoadOk
    \/ StartupFinish
    \/ RunBegin
    \/ RunStepStart
    \/ RunStepFinish

TopologySpecInit == TopologyInit /\ GateIdle /\ BridgeIdle /\ EventIdle /\ RunIdle

TopologySpec == TopologySpecInit /\ [][TopologyNext]_vars

\* the member at a position of a topology
LeafAt(t, path) ==
    IF Len(path) = 1 THEN t.sub_agents[path[1]]
    ELSE t.sub_agents[path[1]].sub_agents[path[2]]

\* no two members of t that write an output key write the same one
DistinctKeys(t) ==
    \A p, q \in LeafPaths(t) :
        (p # q /\ LeafAt(t, p).output_key # None) =>
            LeafAt(t, p).output_key # LeafAt(t, q).output_key

Built == startupPc = "done" /\ agents # <<>>

\* C12: in every topology built at startup (the coordinator with its
\* sub-agents, and the sequential, parallel, loop, review and security
\* pipelines) no two member handles share an output key, whichever non-empty
\* set of online definitions with distinct ids was loaded
C12_NoSharedOutputKey ==
    Built =>
        /\ DistinctKeys(runner.agent)
        /\ \A p \in LeafPaths(runner.agent) :
             LeafAt(runner.agent, p).output_key # runner.agent.output_key
        /\ \A k \in DOMAIN pipelines : DistinctKeys(pipelines[k])

\* the handles of d whose id is in ids, in the order of the sequence wanted
RECURSIVE PresentInOrder(_, _)
PresentInOrder(d, wanted) ==
    IF wanted = <<>> THEN <<>>
    ELSE (IF Head(wanted) \in AgentIds(d) THEN <<Head(wanted)>> ELSE <<>>)
         \o PresentInOrder(d, Tail(wanted))

Names(members) == [i \in 1..Len(members) |-> members[i].name]

NoRepeat(members) ==
    \A i, j \in 1..Len(members) : i # j => members[i] # members[j]

AnalysisRoles == <<"geralt", "ciri", "yennefer">>

\* C14: the parallel fan-out is the handles present among geralt, ciri and
\* yennefer when at least two of them are present, and otherwise the first
\* three handles in load order; no handle occurs twice in it; and the fan-out
\* is followed by exactly one synthesizer step, which starts only when every
\* branch has completed
C14_FanOutThenSynthesizer ==
    Built =>
        LET p == pipelines["parallel"]
            fan == p.sub_agents[1].sub_agents
            present == PresentInOrder(agents, AnalysisRoles)
        IN  /\ p.kind = "sequential"
            /\ Len(p.sub_agents) = 2
            /\ p.sub_agents[1].kind = "parallel"
            /\ p.sub_agents[2].kind = "llm"
            /\ p.sub_agents[2].name = "synthesizer"
            /\ IF Len(present) >= 2
               THEN Names(fan) = present
               ELSE fan = Take(agents, 3)
            /\ \A i \in 1..Len(fan) : \E j \in 1..Len(agents) : fan[i] = agents[j]
            /\ NoRepeat(fan)
            /\ (runTopo = "parallel" /\ <<2>> \in started) =>
                 \A j \in 1..Len(fan) : <<1, j>> \in finished

\* four handles, one named role only: the fan-out is the first three, every
\* branch and the synthesizer have run
C14_Witness ==
    /\ Built
    /\ Len(agents) >= 4
    /\ Len(PresentInOrder(agents, AnalysisRoles)) = 1
    /\ agents[4].name = "ciri"
    /\ runTopo = "parallel"
    /\ <<2>> \in finished

ReviewRoles == <<"eskel", "vesemir", "geralt", "jaskier">>

\* C15: the sequential pipeline is the handles present among eskel, vesemir,
\* geralt and jaskier, in that order, when at least two of them are present,
\* and otherwise the first four handles in load order; it never has more than
\* four steps; and a step starts only after the step before it has completed
C15_OrderedAtMostFour ==
    Built =>
        LET p == pipelines["sequential"]
            steps == p.sub_agents
            present == PresentInOrder(agents, ReviewRoles)
        IN  /\ IF Len(present) >= 2
               THEN Names(steps) = present
               ELSE steps = Take(agents, 4)
            /\ \A i \in 1..Len(steps) : \E j \in 1..Len(agents) : steps[i] = agents[j]
            /\ Len(steps) <= 4
            /\ runTopo = "sequential" =>
                 \A i \in 2..Len(steps) : <<i>> \in started => <<i - 1>> \in finished

\* five handles, one named role only, loaded last: the first four ran in order
C15_Witness ==
    /\ Built
    /\ Len(agents) = 5
    /\ Len(PresentInOrder(agents, ReviewRoles)) = 1
    /\ agents[5].name = "geralt"
    /\ runTopo = "sequential"
    /\ Len(pipelines["sequential"].sub_agents) = 4
    /\ <<4>> \in finished

\* a handler that has run the refinement loop and not yet returned
LoopRequestDone(h) == reqs[h].pc = "done" /\ reqs[h].executed = "refinement_loop"

\* C13: at the first QualityGate evaluation of every refinement-loop request
\* the iteration counter reads 0, and a review status the request's own
\* reviewer did not write reads as the default, whatever earlier requests on
\* the same (user id, session id) did
C13_LoopStateRequestScoped ==
    \A h \in Slots :
        LoopRequestDone(h) =>
            /\ reqs[h].gate_first.iteration = 0
            /\ ~reqs[h].gate_first.reviewer_wrote =>
                 reqs[h].gate_first.review_status = "needs_work"

\* C16: create_session is called at most once for each (user id, session id)
C16_CreatedAtMostOnce ==
    \A key \in DOMAIN createCalls : createCalls[key] <= 1

\* C17: once startup has completed no request changes _agents or _pipelines,
\* and _pipelines is non-empty exactly when _agents is
C17_CatalogueReadOnly ==
    /\ [][startupPc = "done" => (agents' = agents /\ pipelines' = pipelines)]_vars
    /\ [](startupPc = "done" => ((DOMAIN pipelines # {}) <=> (agents # <<>>)))

\* loaded agents; a /list-apps request and a run with an unknown selector
\* have both been handled
C17_Witness ==
    /\ startupPc = "done"
    /\ agents # <<>>
    /\ \E h1, h2 \in Slots :
         /\ reqs[h1].pc = "done"
         /\ reqs[h1].endpoint = "list-apps"
         /\ reqs[h1].info.pipelines = DOMAIN pipelines
         /\ reqs[h2].pc = "done"
         /\ reqs[h2].pattern = "bogus"
         /\ reqs[h2].executed = "coordinator"

=============================================================================
